---- MODULE Spec2Model ----
(***************************************************************************)
(* A model of noname's declaration/type/statement parser                   *)
(* (src/parser/types.rs) and of the two structural type-equivalence        *)
(* relations on TyKind.                                                    *)
(*                                                                         *)
(* Two specifications:                                                     *)
(*   SpecTy  applies TyKind::match_expected and TyKind::same_as to pairs   *)
(*           of TyKinds drawn from a bounded universe;                     *)
(*   Spec    runs one of the public parsers on a token stream that is      *)
(*           extended, one token at a time, for as long as the parser      *)
(*           runs off the end of the tokens it was given.                  *)
(***************************************************************************)
EXTENDS Integers, Sequences, FiniteSets, TLC

VARIABLES
    lhs,        \* `self` of match_expected / same_as
    rhs,        \* `expected` of match_expected, `other` of same_as
    verdict,    \* the last relation applied to (lhs, rhs) and what it returned
    entry,      \* the public parser under run
    self_name,  \* the `self_name` argument handed to Function::parse_args
    tokens,     \* the token stream given to the parser
    out,        \* what the parser returned on `tokens`
    input_name, \* the `name` argument of is_valid_fn_name / is_valid_fn_type
    casing      \* the last casing predicate applied to `input_name`, its answer

vars == <<lhs, rhs, verdict, entry, self_name, tokens, out, input_name, casing>>

(***************************************************************************)
(* Bounds of the model.                                                    *)
(***************************************************************************)
\* nesting depth of the array types drawn for the equivalence relations
MaxDepth == 2

\* length of the longest name handed to the casing predicates
MaxNameLen == 3

(***************************************************************************)
(* Spans and identifiers.                                                  *)
(***************************************************************************)
\* Span(start, len)
Span(start, len) == <<start, len>>

\* Ident { value, span }
Ident(value, span) == [value |-> value, span |-> span]

\* Option<T>: None is <<>>, Some(x) is <<x>>
None == <<>>
Some(x) == <<x>>
is_some(o) == Len(o) = 1
unwrap(o) == o[1]

(***************************************************************************)
(* TyKind.                                                                 *)
(***************************************************************************)
TyField == [tag |-> "Field"]
TyBigInt == [tag |-> "BigInt"]
TyBool == [tag |-> "Bool"]
TyCustom(module, name) == [tag |-> "Custom", module |-> module, name |-> name]
TyArray(elem, size) == [tag |-> "Array", elem |-> elem, size |-> size]

\* Option::zip(..).map_or(true, |(a, b)| a == b): Ident's derived PartialEq
\* compares the value and the span
module_zip_eq(module, expected_module) ==
    IF is_some(module) /\ is_some(expected_module)
    THEN unwrap(module) = unwrap(expected_module)
    ELSE TRUE

RECURSIVE match_expected(_, _)
\* a variant of match_expected that also accepts (Field, BigInt)
match_expected_symmetric(self, expected) ==
    CASE (self.tag = "BigInt" /\ expected.tag = "Field")
           \/ (self.tag = "Field" /\ expected.tag = "BigInt") -> TRUE
      [] self.tag = "Array" /\ expected.tag = "Array" ->
            self.size = expected.size /\ match_expected(self.elem, expected.elem)
      [] self.tag = "Custom" /\ expected.tag = "Custom" ->
            module_zip_eq(self.module, expected.module)
            /\ self.name.value = expected.name.value
      [] OTHER -> self = expected

\* a variant of match_expected that forgets the (BigInt, Field) arm
match_expected_no_coercion(self, expected) ==
    CASE self.tag = "Array" /\ expected.tag = "Array" ->
            self.size = expected.size /\ match_expected(self.elem, expected.elem)
      [] self.tag = "Custom" /\ expected.tag = "Custom" ->
            module_zip_eq(self.module, expected.module)
            /\ self.name.value = expected.name.value
      [] OTHER -> self = expected

\* TyKind::match_expected(&self, expected)
match_expected(self, expected) ==
    CASE self.tag = "BigInt" /\ expected.tag = "Field" -> TRUE
      [] self.tag = "Array" /\ expected.tag = "Array" ->
            self.size = expected.size /\ match_expected(self.elem, expected.elem)
      [] self.tag = "Custom" /\ expected.tag = "Custom" ->
            module_zip_eq(self.module, expected.module)
            /\ self.name.value = expected.name.value
      [] OTHER -> self = expected

RECURSIVE same_as(_, _)
\* a variant of same_as that recurses into itself on array elements
same_as_self_recursive(self, other) ==
    CASE (self.tag = "BigInt" /\ other.tag = "Field")
           \/ (self.tag = "Field" /\ other.tag = "BigInt") -> TRUE
      [] self.tag = "Array" /\ other.tag = "Array" ->
            self.size = other.size /\ same_as(self.elem, other.elem)
      [] self.tag = "Custom" /\ other.tag = "Custom" ->
            module_zip_eq(self.module, other.module)
            /\ self.name.value = other.name.value
      [] OTHER -> self = other

\* a variant of same_as that forgets the (Field, BigInt) arm
same_as_one_way(self, other) ==
    CASE self.tag = "BigInt" /\ other.tag = "Field" -> TRUE
      [] self.tag = "Array" /\ other.tag = "Array" ->
            self.size = other.size /\ match_expected(self.elem, other.elem)
      [] self.tag = "Custom" /\ other.tag = "Custom" ->
            module_zip_eq(self.module, other.module)
            /\ self.name.value = other.name.value
      [] OTHER -> self = other

\* TyKind::same_as(&self, other)
same_as(self, other) ==
    CASE (self.tag = "BigInt" /\ other.tag = "Field")
           \/ (self.tag = "Field" /\ other.tag = "BigInt") -> TRUE
      [] self.tag = "Array" /\ other.tag = "Array" ->
            self.size = other.size /\ match_expected(self.elem, other.elem)
      [] self.tag = "Custom" /\ other.tag = "Custom" ->
            module_zip_eq(self.module, other.module)
            /\ self.name.value = other.name.value
      [] OTHER -> self = other

(***************************************************************************)
(* Characters and the casing rule.  A name is a sequence of characters.    *)
(***************************************************************************)
UpperChars ==
    {"A", "B", "C", "D", "E", "F", "G", "H", "I", "J", "K", "L", "M",
     "N", "O", "P", "Q", "R", "S", "T", "U", "V", "W", "X", "Y", "Z"}

LowerChars ==
    {"a", "b", "c", "d", "e", "f", "g", "h", "i", "j", "k", "l", "m",
     "n", "o", "p", "q", "r", "s", "t", "u", "v", "w", "x", "y", "z"}

DigitChars == {"0", "1", "2", "3", "4", "5", "6", "7", "8", "9"}

is_alphanumeric(c) == c \in UpperChars \cup LowerChars \cup DigitChars

\* syntax::is_type: the name starts with an uppercase letter and holds only
\* alphanumeric characters or underscores
is_type(name) ==
    /\ Len(name) > 0
    /\ name[1] \in UpperChars
    /\ \A i \in 1..Len(name) : is_alphanumeric(name[i]) \/ name[i] = "_"

\* is_valid_fn_name: the first character is a lowercase letter and every
\* character is alphanumeric or an underscore
is_valid_fn_name(name) ==
    /\ Len(name) > 0
    /\ (name[1] \in UpperChars \cup LowerChars \/ name[1] = "_")
    /\ name[1] \in LowerChars
    /\ \A i \in 1..Len(name) : is_alphanumeric(name[i]) \/ name[i] = "_"

\* is_valid_fn_type: the first character is an uppercase letter and every
\* character is alphanumeric or an underscore
is_valid_fn_type(name) ==
    /\ Len(name) > 0
    /\ name[1] \in UpperChars \cup LowerChars
    /\ name[1] \in UpperChars
    /\ \A i \in 1..Len(name) : is_alphanumeric(name[i]) \/ name[i] = "_"

NameSelf == <<"s", "e", "l", "f">>
NameField == <<"F", "i", "e", "l", "d">>
NameBool == <<"B", "o", "o", "l">>

(***************************************************************************)
(* Tokens.  A TokenKind is a tag with the text of an identifier, keyword   *)
(* or comment, or the digits of an integer literal.                        *)
(***************************************************************************)
TokenKind(tag, text, digits) == [tag |-> tag, text |-> text, digits |-> digits]
Punct(tag) == TokenKind(tag, <<>>, <<>>)
Keyword(kw) == TokenKind("Keyword", kw, <<>>)
Identifier(name) == TokenKind("Identifier", name, <<>>)
BigIntLit(digits) == TokenKind("BigInt", <<>>, digits)
CommentTok(text) == TokenKind("Comment", text, <<>>)

\* Token { kind, span }
Token(kind, span) == [kind |-> kind, span |-> span]

\* Span::merge_with: from the start of self to the end of other
merge_with(self, other) == Span(self[1], (other[1] + other[2]) - self[1])

(***************************************************************************)
(* Results.  A parser returns Ok(value), Err(error) or panics; the cursor  *)
(* it leaves behind travels with the result.  `eof` marks an error raised  *)
(* because the token stream had ended.                                     *)
(***************************************************************************)
NoError == [kind |-> "", msg |-> "", span |-> Span(0, 0)]

Ok(st, v) == [k |-> "ok", st |-> st, v |-> v, e |-> NoError, eof |-> FALSE]

\* the cursor once the error e has been raised: the error is logged with
\* the position and the longest list of that moment
raised(st, e) ==
    [st EXCEPT !.errors = Append(@, [e |-> e, pos |-> st.pos, items |-> st.items])]

\* ctx.error(kind, span), returned as Err
Err(st, kind, msg, span) ==
    [k |-> "err", st |-> raised(st, [kind |-> kind, msg |-> msg, span |-> span]),
     v |-> <<>>, e |-> [kind |-> kind, msg |-> msg, span |-> span], eof |-> FALSE]

\* the same, for an error raised on the end of the token stream
ErrEof(st, kind, msg, span) ==
    [k |-> "err", st |-> raised(st, [kind |-> kind, msg |-> msg, span |-> span]),
     v |-> <<>>, e |-> [kind |-> kind, msg |-> msg, span |-> span], eof |-> TRUE]

\* an error raised on what a peek saw: on the end of the stream when the
\* peek saw no token
ErrPeeked(st, kind, msg, span) ==
    IF st.pos >= Len(st.toks) THEN ErrEof(st, kind, msg, span)
    ELSE Err(st, kind, msg, span)

\* panic!(msg): the process aborts
Panic(st, msg) ==
    [k |-> "panic", st |-> st, v |-> <<>>,
     e |-> [kind |-> "panic", msg |-> msg, span |-> Span(0, 0)], eof |-> FALSE]

(***************************************************************************)
(* The token cursor (lexer::Tokens) and ParserCtx::last_span.              *)
(* A cursor is the token stream and the number of tokens consumed.  Its    *)
(* `items`, `exprs` and `bumps` are ghost fields no code reads: the length *)
(* of the longest list (arguments, fields, statements) the parse has built *)
(* so far, the number of calls of Expr::parse, and the number of tokens    *)
(* Tokens::bump has handed out.  The driver bounds its inputs by the first *)
(* two.  Three more ghost fields keep a history: `starts`, the positions   *)
(* at which the loop iterations under way began, `stalled`, whether an     *)
(* iteration went round again without consuming, and `errors`, the errors  *)
(* raised so far.                                                          *)
(***************************************************************************)
Cursor(toks) ==
    [toks |-> toks, pos |-> 0, items |-> 0, exprs |-> 0, bumps |-> 0,
     starts |-> <<>>, stalled |-> FALSE, errors |-> <<>>]

\* the cursor at the start of one iteration of a parser loop: the position
\* is noted
begun(st) == [st EXCEPT !.starts = Append(@, st.pos)]

\* the cursor when the iteration begun last exits its loop
done(st) == [st EXCEPT !.starts = SubSeq(@, 1, Len(@) - 1)]

\* the cursor when the iteration begun last goes round again: it has
\* stalled if the position is the one noted at its start
again(st) ==
    [st EXCEPT !.starts = SubSeq(@, 1, Len(@) - 1),
               !.stalled = @ \/ st.pos = st.starts[Len(st.starts)]]

\* the cursor once Expr::parse has been entered
entered(st) == [st EXCEPT !.exprs = @ + 1]

\* the cursor once `list` has been pushed to
grown(st, list) == [st EXCEPT !.items = IF Len(list) > @ THEN Len(list) ELSE @]

at_end(st) == st.pos >= Len(st.toks)

\* Tokens::peek
peek(st) == IF at_end(st) THEN None ELSE Some(st.toks[st.pos + 1])

\* the cursor after Tokens::bump
bumped(st) ==
    IF at_end(st) THEN st ELSE [st EXCEPT !.pos = @ + 1, !.bumps = @ + 1]

\* ParserCtx::last_span: the span of the last token bumped
last_span(st) == IF st.pos = 0 THEN Span(0, 0) ELSE st.toks[st.pos].span

\* Tokens::bump_err
bump_err(st, kind, msg) ==
    IF at_end(st) THEN ErrEof(st, kind, msg, last_span(st))
    ELSE Ok(bumped(st), unwrap(peek(st)))

\* Tokens::bump_expected
bump_expected(st, typ) ==
    IF at_end(st) THEN ErrEof(st, "MissingToken", "", last_span(st))
    ELSE LET token == unwrap(peek(st))
         IN  IF token.kind = typ THEN Ok(bumped(st), token)
             ELSE Err(bumped(st), "ExpectedToken", typ.tag, token.span)

\* Tokens::bump_ident
bump_ident(st, kind, msg) ==
    IF at_end(st) THEN ErrEof(st, kind, msg, last_span(st))
    ELSE LET token == unwrap(peek(st))
         IN  IF token.kind.tag = "Identifier"
             THEN Ok(bumped(st), Ident(token.kind.text, token.span))
             ELSE Err(bumped(st), kind, msg, token.span)

(***************************************************************************)
(* Ident, Ty.                                                              *)
(***************************************************************************)
\* the `?` operator: an Err (or a panic) of `r` is returned as it is,
\* an Ok is handed on
Then(r, rest(_)) == IF r.k # "ok" THEN r ELSE rest(r)

\* Ident::parse
Ident_parse(st) ==
    Then(bump_err(st, "MissingToken", ""), LAMBDA token :
        IF token.v.kind.tag = "Identifier"
        THEN Ok(token.st, Ident(token.v.kind.text, token.v.span))
        ELSE Err(token.st, "ExpectedToken", "Identifier", token.v.span))

\* Ty { kind, span }
Ty(kind, span) == [kind |-> kind, span |-> span]

\* Ty::reserved_types: the TyKind of a (module, name) pair, or a panic
reserved_types(module, name) ==
    CASE name.value \in {NameField, NameBool} /\ is_some(module) ->
            [panicked |-> TRUE, kind |-> TyField]
      [] name.value = NameField -> [panicked |-> FALSE, kind |-> TyField]
      [] name.value = NameBool -> [panicked |-> FALSE, kind |-> TyBool]
      [] OTHER -> [panicked |-> FALSE, kind |-> TyCustom(module, name)]

\* u32::MAX, 4294967295, as a decimal numeral: a u32 is kept as its decimal
\* numeral without leading zeros, since 2^32 - 1 is beyond TLC's integers
U32MaxNumeral == <<4, 2, 9, 4, 9, 6, 7, 2, 9, 5>>

RECURSIVE strip_zeros(_)
\* the numeral of a string of decimal digits: its leading zeros dropped
strip_zeros(digits) ==
    IF Len(digits) > 1 /\ digits[1] = 0 THEN strip_zeros(Tail(digits)) ELSE digits

RECURSIVE numeral_le(_, _)
\* a <= b, for two numerals of the same length
numeral_le(a, b) ==
    IF a = <<>> THEN TRUE
    ELSE IF a[1] # b[1] THEN a[1] < b[1]
    ELSE numeral_le(Tail(a), Tail(b))

\* str::parse::<u32>, were a number over u32::MAX wrapped like 2^32 to 0
parse_u32_wrapping(digits) ==
    LET n == strip_zeros(digits)
    IN  IF digits = <<>> THEN None
        ELSE IF Len(n) > Len(U32MaxNumeral) THEN Some(<<0>>)
        ELSE IF Len(n) = Len(U32MaxNumeral) /\ ~numeral_le(n, U32MaxNumeral)
        THEN Some(<<0>>)
        ELSE Some(n)

\* str::parse::<u32>: None when the string is empty or the number exceeds
\* u32::MAX
parse_u32(digits) ==
    LET n == strip_zeros(digits)
    IN  IF digits = <<>> THEN None
        ELSE IF Len(n) > Len(U32MaxNumeral) THEN None
        ELSE IF Len(n) = Len(U32MaxNumeral) /\ ~numeral_le(n, U32MaxNumeral) THEN None
        ELSE Some(n)

\* Ty::parse, the end of the identifier arm: the TyKind of (module, name),
\* with the span of the first token
Ty_parse_finish(st, module, name, token) ==
    IF reserved_types(module, name).panicked
    THEN Panic(st, "reserved types cannot be in a module")
    ELSE Ok(st, Ty(reserved_types(module, name).kind, token.span))

\* Ty::parse, the identifier arm, `module::Type`: the name after the `::`;
\* st is the cursor after the `::`
Ty_parse_qualified(st, token) ==
    IF at_end(st)
    THEN ErrEof(st, "MissingType", "", last_span(st))
    ELSE IF unwrap(peek(st)).kind.tag = "Identifier"
    THEN Ty_parse_finish(bumped(st), Some(Ident(token.kind.text, token.span)),
                         Ident(unwrap(peek(st)).kind.text, unwrap(peek(st)).span),
                         token)
    ELSE Err(bumped(st), "MissingType", "", last_span(bumped(st)))

\* Ty::parse, the identifier arm: `Type` or `module::Type`; st is the cursor
\* after the first token
Ty_parse_named(st, token) ==
    IF is_type(token.kind.text)
    THEN Ty_parse_finish(st, None, Ident(token.kind.text, token.span), token)
    ELSE Then(bump_expected(st, Punct("DoubleColon")), LAMBDA colons :
            Ty_parse_qualified(colons.st, token))

\* Ty::parse, the array arm: the size of `[type; size]`, a u32 literal
Ty_parse_size(siz) ==
    IF siz.v.kind.tag # "BigInt"
    THEN Err(siz.st, "ExpectedToken", "BigInt", siz.v.span)
    ELSE IF parse_u32(siz.v.kind.digits) = None
    THEN Err(siz.st, "InvalidArraySize", "", siz.v.span)
    ELSE Ok(siz.st, unwrap(parse_u32(siz.v.kind.digits)))

RECURSIVE Ty_parse(_)
\* Ty::parse, the array arm: `[type; size]`; st is the cursor after the `[`
Ty_parse_array(st, token) ==
    Then(Ty_parse(st), LAMBDA ty :
    Then(bump_expected(ty.st, Punct("SemiColon")), LAMBDA semi :
    Then(bump_err(semi.st, "InvalidToken", ""), LAMBDA tok :
    Then(Ty_parse_size(tok), LAMBDA siz :
    Then(bump_expected(siz.st, Punct("RightBracket")), LAMBDA right_paren :
        Ok(right_paren.st,
           Ty(TyArray(ty.v.kind, siz.v),
              merge_with(Span(token.span[1], 0), right_paren.v.span))))))))

\* Ty::parse
Ty_parse(st) ==
    Then(bump_err(st, "MissingType", ""), LAMBDA token :
        CASE token.v.kind.tag = "Identifier" -> Ty_parse_named(token.st, token.v)
          [] token.v.kind.tag = "LeftBracket" -> Ty_parse_array(token.st, token.v)
          [] OTHER -> Err(token.st, "InvalidType", "", token.v.span))

\* CustomType::parse
CustomType_parse(st) ==
    Then(bump_ident(st, "InvalidType", ""), LAMBDA ty_name :
        IF ~is_type(ty_name.v.value)
        THEN Panic(ty_name.st, "type name should start with uppercase letter")
        ELSE IF reserved_types(None, ty_name.v).kind.tag # "Custom"
        THEN Err(ty_name.st, "ReservedType", "", ty_name.v.span)
        ELSE Ok(ty_name.st, [value |-> ty_name.v.value, span |-> ty_name.v.span]))

(***************************************************************************)
(* Function names and arguments.                                           *)
(***************************************************************************)
\* FnNameDef { self_name, name, span }
FnNameDef(sn, name, span) == [self_name |-> sn, name |-> name, span |-> span]

\* FnNameDef::parse
FnNameDef_parse(st) ==
    Then(bump_ident(st, "InvalidFunctionSignature", "expected function name"),
         LAMBDA maybe_self_name :
        IF is_type(maybe_self_name.v.value)
        THEN Then(bump_expected(maybe_self_name.st, Punct("Dot")), LAMBDA dot :
             Then(bump_ident(dot.st, "InvalidFunctionSignature",
                             "expected function name"), LAMBDA name :
                Ok(name.st,
                   FnNameDef(Some(maybe_self_name.v), name.v,
                             merge_with(maybe_self_name.v.span, name.v.span)))))
        ELSE Ok(maybe_self_name.st,
                FnNameDef(None, maybe_self_name.v, maybe_self_name.v.span)))

\* Attribute { kind, span }
Attribute(kind, span) == [kind |-> kind, span |-> span]

\* FnArg { name, typ, attribute, span }
FnArg(name, typ, attribute, span) ==
    [name |-> name, typ |-> typ, attribute |-> attribute, span |-> span]

\* Function::parse_args, the name after a `pub` or `const` keyword
parse_arg_attributed(st, kind, token) ==
    Then(Ident_parse(st), LAMBDA arg_name :
        Ok(arg_name.st,
           [stop |-> FALSE, attribute |-> Some(Attribute(kind, token.span)),
            arg_name |-> arg_name.v]))

\* Function::parse_args, the lead of one argument: `)` (stop), or the
\* attribute and the name
parse_arg_lead(st) ==
    Then(bump_err(st, "InvalidFunctionSignature", "expected function arguments"),
         LAMBDA token :
        CASE token.v.kind.tag = "RightParen" ->
                Ok(token.st, [stop |-> TRUE, attribute |-> None,
                              arg_name |-> Ident(<<>>, token.v.span)])
          [] token.v.kind = Keyword(<<"p", "u", "b">>) ->
                parse_arg_attributed(token.st, "Pub", token.v)
          [] token.v.kind = Keyword(<<"c", "o", "n", "s", "t">>) ->
                parse_arg_attributed(token.st, "Const", token.v)
          [] token.v.kind.tag = "Identifier" ->
                Ok(token.st, [stop |-> FALSE, attribute |-> None,
                              arg_name |-> Ident(token.v.kind.text, token.v.span)])
          [] OTHER ->
                Err(token.st, "InvalidFunctionSignature", "expected identifier",
                    token.v.span))

\* a variant of the type of one argument that takes `self` at any position
parse_arg_type_any_position(st, sn, args, arg_name) ==
    IF arg_name.value = NameSelf
    THEN IF sn = None
         THEN Err(st, "InvalidFunctionSignature",
                  "the self argument is only allowed in struct methods", arg_name.span)
         ELSE Ok(st, Ty(TyCustom(None, Ident(unwrap(sn).value, unwrap(sn).span)),
                        unwrap(sn).span))
    ELSE Then(bump_expected(st, Punct("Colon")), LAMBDA colon : Ty_parse(colon.st))

\* Function::parse_args, the type of one argument: synthesized from
\* self_name for `self`, `: type` otherwise
parse_arg_type(st, sn, args, arg_name) ==
    IF arg_name.value = NameSelf
    THEN IF sn = None
         THEN Err(st, "InvalidFunctionSignature",
                  "the self argument is only allowed in struct methods", arg_name.span)
         ELSE IF args # <<>>
         THEN Err(st, "InvalidFunctionSignature",
                  "self must be the first argument", arg_name.span)
         ELSE Ok(st, Ty(TyCustom(None, Ident(unwrap(sn).value, unwrap(sn).span)),
                        unwrap(sn).span))
    ELSE Then(bump_expected(st, Punct("Colon")), LAMBDA colon : Ty_parse(colon.st))

\* Function::parse_args, the span of one argument
arg_span(attribute, arg_name, arg_typ) ==
    IF is_some(attribute) THEN merge_with(unwrap(attribute).span, arg_typ.span)
    ELSE IF arg_name.value = NameSelf THEN arg_name.span
    ELSE merge_with(arg_name.span, arg_typ.span)

RECURSIVE parse_args_loop(_, _, _)
\* Function::parse_args, the end of one argument: the attribute check, the
\* push and the separator; st is the cursor after the separator
parse_arg_end(st, separator, pushed, sn) ==
    CASE separator.kind.tag = "Comma" ->
            parse_args_loop(again(grown(st, pushed)), sn, pushed)
      [] separator.kind.tag = "RightParen" -> Ok(done(grown(st, pushed)), pushed)
      [] OTHER ->
            Err(grown(st, pushed), "InvalidFunctionSignature",
                "expected end of function or other argument", separator.span)

\* Function::parse_args, the loop over the arguments
parse_args_loop(st, sn, args) ==
    Then(parse_arg_lead(begun(st)), LAMBDA lead :
        IF lead.v.stop THEN Ok(done(lead.st), args)
        ELSE
        Then(parse_arg_type(lead.st, sn, args, lead.v.arg_name), LAMBDA arg_typ :
        Then(bump_err(arg_typ.st, "InvalidFunctionSignature",
                      "expected end of function or other argument"),
             LAMBDA separator :
            IF is_some(lead.v.attribute) /\ lead.v.arg_name.value = NameSelf
            THEN Err(separator.st, "SelfHasAttribute", "", lead.v.arg_name.span)
            ELSE parse_arg_end(separator.st, separator.v,
                               Append(args,
                                      FnArg(lead.v.arg_name, arg_typ.v, lead.v.attribute,
                                            arg_span(lead.v.attribute, lead.v.arg_name,
                                                     arg_typ.v))),
                               sn))))

\* Function::parse_args
Function_parse_args(st, sn) ==
    Then(bump_expected(st, Punct("LeftParen")), LAMBDA left_paren :
        parse_args_loop(left_paren.st, sn, <<>>))

\* Function::parse_fn_return_type
parse_fn_return_type(st) ==
    IF is_some(peek(st)) /\ unwrap(peek(st)).kind.tag = "RightArrow"
    THEN Then(Ty_parse(bumped(st)), LAMBDA return_type :
            Ok(return_type.st, Some(return_type.v)))
    ELSE Ok(st, None)

\* FnSig::parse
FnSig_parse(st) ==
    Then(FnNameDef_parse(st), LAMBDA name :
    Then(Function_parse_args(name.st, name.v.self_name), LAMBDA arguments :
    Then(parse_fn_return_type(arguments.st), LAMBDA return_type :
        Ok(return_type.st,
           [name |-> name.v, arguments |-> arguments.v,
            return_type |-> return_type.v]))))

(***************************************************************************)
(* Expressions.  Only the forms the declaration and statement parsers are  *)
(* handed: an integer literal, `true`, a variable, a function call, and a  *)
(* struct literal (a type-cased identifier immediately followed by `{`).   *)
(***************************************************************************)
\* Expr { kind, span }
Expr(kind, span) == [kind |-> kind, span |-> span]

RECURSIVE Expr_parse(_)
RECURSIVE type_declaration_loop(_, _)
\* parse_type_declaration, the end of one field: the push and the separator
type_declaration_sep(st, pushed) ==
    Then(bump_err(grown(st, pushed), "InvalidEndOfLine", ""), LAMBDA sep :
        CASE sep.v.kind.tag = "Comma" -> type_declaration_loop(again(sep.st), pushed)
          [] sep.v.kind.tag = "RightCurlyBracket" -> Ok(done(sep.st), pushed)
          [] OTHER -> Err(sep.st, "InvalidEndOfLine", "", last_span(sep.st)))

\* parse_type_declaration, the loop over the fields
type_declaration_loop(st, fields) ==
    IF is_some(peek(st)) /\ unwrap(peek(st)).kind.tag = "RightCurlyBracket"
    THEN Ok(bumped(st), fields)
    ELSE Then(Ident_parse(begun(st)), LAMBDA field_name :
         Then(bump_expected(field_name.st, Punct("Colon")), LAMBDA colon :
         Then(Expr_parse(colon.st), LAMBDA field_value :
            type_declaration_sep(field_value.st,
                                 Append(fields, <<field_name.v, field_value.v>>)))))

\* parse_type_declaration(ctx, tokens, ident)
parse_type_declaration(st, ident) ==
    IF ~is_type(ident.value)
    THEN Panic(st, "this looks like a type declaration but not on a type")
    ELSE Then(type_declaration_loop(bumped(st), <<>>), LAMBDA fields :
            Ok(fields.st,
               Expr([tag |-> "CustomTypeDeclaration", struct_name |-> ident,
                     fields |-> fields.v],
                    merge_with(ident.span, last_span(fields.st)))))

RECURSIVE fn_call_args_loop(_, _, _)
\* parse_fn_call_args, one step of the loop on the peeked token x
fn_call_args_step(st, x, args, span) ==
    CASE x.kind.tag = "Comma" -> fn_call_args_loop(again(bumped(st)), args, span)
      [] x.kind.tag = "RightParen" ->
            Ok(done(bumped(st)), <<args, merge_with(span, x.span)>>)
      [] OTHER ->
            Then(Expr_parse(st), LAMBDA arg :
                fn_call_args_loop(again(grown(arg.st, Append(args, arg.v))),
                                  Append(args, arg.v), span))

\* parse_fn_call_args, the loop over the arguments
fn_call_args_loop(st, args, span) ==
    IF peek(st) = None
    THEN ErrEof(st, "InvalidFnCall", "unexpected end of function call", last_span(st))
    ELSE fn_call_args_step(begun(st), unwrap(peek(st)), args, span)

\* parse_fn_call_args(ctx, tokens)
parse_fn_call_args(st) ==
    IF at_end(st) THEN Panic(st, "parser error: parse_fn_call_args")
    ELSE fn_call_args_loop(bumped(st), <<>>, unwrap(peek(st)).span)

\* Expr::parse, an identifier: a struct literal, a function call or a variable
Expr_parse_ident(st, ident) ==
    CASE is_some(peek(st)) /\ unwrap(peek(st)).kind.tag = "LeftCurlyBracket"
         /\ is_type(ident.value) ->
            parse_type_declaration(st, ident)
      [] is_some(peek(st)) /\ unwrap(peek(st)).kind.tag = "LeftParen" ->
            Then(parse_fn_call_args(st), LAMBDA args :
                Ok(args.st,
                   Expr([tag |-> "FnCall", name |-> ident, args |-> args.v[1]],
                        merge_with(ident.span, args.v[2]))))
      [] OTHER -> Ok(st, Expr([tag |-> "Variable", name |-> ident], ident.span))

\* Expr::parse
Expr_parse(st) ==
    Then(bump_err(entered(st), "MissingExpression", ""), LAMBDA token :
        CASE token.v.kind.tag = "BigInt" ->
                Ok(token.st,
                   Expr([tag |-> "BigInt", digits |-> token.v.kind.digits], token.v.span))
          [] token.v.kind = Keyword(<<"t", "r", "u", "e">>) ->
                Ok(token.st, Expr([tag |-> "Bool", val |-> TRUE], token.v.span))
          [] token.v.kind.tag = "Identifier" ->
                Expr_parse_ident(token.st, Ident(token.v.kind.text, token.v.span))
          [] OTHER -> Err(token.st, "InvalidExpression", "", token.v.span))

(***************************************************************************)
(* Statements.                                                             *)
(***************************************************************************)
\* Stmt { kind, span }
Stmt(kind, span) == [kind |-> kind, span |-> span]

\* Stmt::parse, the `let` arm after the optional `mut`; token is the `let`
Stmt_parse_assign(st, token, mutable) ==
    Then(Ident_parse(st), LAMBDA lhs_ident :
    Then(bump_expected(lhs_ident.st, Punct("Equal")), LAMBDA equal :
    Then(Expr_parse(equal.st), LAMBDA rhs_expr :
    Then(bump_expected(rhs_expr.st, Punct("SemiColon")), LAMBDA semi :
        Ok(semi.st,
           Stmt([tag |-> "Assign", mutable |-> mutable,
                 lhs |-> lhs_ident.v, rhs |-> rhs_expr.v],
                Span(token.span[1],
                     rhs_expr.v.span[2] + rhs_expr.v.span[1] - token.span[1])))))))

\* Stmt::parse, the `let` arm, were `mut` consumed and not recorded
Stmt_parse_let_mut_dropped(st, token) ==
    IF is_some(peek(bumped(st)))
       /\ unwrap(peek(bumped(st))).kind = Keyword(<<"m", "u", "t">>)
    THEN Stmt_parse_assign(bumped(bumped(st)), token, FALSE)
    ELSE Stmt_parse_assign(bumped(st), token, FALSE)

\* Stmt::parse, the `let` arm; token is the peeked `let`
Stmt_parse_let(st, token) ==
    IF is_some(peek(bumped(st)))
       /\ unwrap(peek(bumped(st))).kind = Keyword(<<"m", "u", "t">>)
    THEN Stmt_parse_assign(bumped(bumped(st)), token, TRUE)
    ELSE Stmt_parse_assign(bumped(st), token, FALSE)

\* Stmt::parse, one bound of a for loop, were any token taken as a bound
Stmt_parse_bound_any_token(st) ==
    IF is_some(peek(st)) /\ unwrap(peek(st)).kind.tag = "BigInt"
    THEN IF parse_u32(unwrap(peek(st)).kind.digits) = None
         THEN Err(bumped(st), "InvalidRangeSize", "", unwrap(peek(st)).span)
         ELSE Ok(bumped(st),
                 <<unwrap(parse_u32(unwrap(peek(st)).kind.digits)), unwrap(peek(st)).span>>)
    ELSE IF is_some(peek(st))
         THEN Ok(bumped(st), <<<<0>>, unwrap(peek(st)).span>>)
         ELSE ErrEof(st, "ExpectedToken", "BigInt", last_span(st))

\* Stmt::parse, one bound of a for loop: a u32 literal
Stmt_parse_bound(st) ==
    IF is_some(peek(st)) /\ unwrap(peek(st)).kind.tag = "BigInt"
    THEN IF parse_u32(unwrap(peek(st)).kind.digits) = None
         THEN Err(bumped(st), "InvalidRangeSize", "", unwrap(peek(st)).span)
         ELSE Ok(bumped(st),
                 <<unwrap(parse_u32(unwrap(peek(st)).kind.digits)), unwrap(peek(st)).span>>)
    ELSE IF is_some(peek(st))
         THEN Err(bumped(st), "ExpectedToken", "BigInt", last_span(bumped(st)))
         ELSE ErrEof(st, "ExpectedToken", "BigInt", last_span(st))

RECURSIVE Stmt_parse(_)
RECURSIVE for_body_loop(_, _)
\* Stmt::parse, the loop over a for-loop body, were the end of input taken
\* as the end of the body
for_body_loop_closed_by_eof(st, body) ==
    IF peek(st) = None THEN Ok(st, body)
    ELSE IF unwrap(peek(st)).kind.tag = "RightCurlyBracket"
    THEN Ok(bumped(st), body)
    ELSE Then(Stmt_parse(begun(st)), LAMBDA statement :
            for_body_loop(again(grown(statement.st, Append(body, statement.v))),
                          Append(body, statement.v)))

\* Stmt::parse, the loop over the statements of a for-loop body
for_body_loop(st, body) ==
    IF is_some(peek(st)) /\ unwrap(peek(st)).kind.tag = "RightCurlyBracket"
    THEN Ok(bumped(st), body)
    ELSE Then(Stmt_parse(begun(st)), LAMBDA statement :
            for_body_loop(again(grown(statement.st, Append(body, statement.v))),
                          Append(body, statement.v)))

\* Stmt::parse, the `for` arm; token is the peeked `for`
Stmt_parse_for(st, token) ==
    Then(Ident_parse(bumped(st)), LAMBDA var :
    Then(bump_expected(var.st, Keyword(<<"i", "n">>)), LAMBDA in :
    Then(Stmt_parse_bound(in.st), LAMBDA start :
    Then(bump_expected(start.st, Punct("DoubleDot")), LAMBDA dots :
    Then(Stmt_parse_bound(dots.st), LAMBDA end :
    Then(bump_expected(end.st, Punct("LeftCurlyBracket")), LAMBDA brace :
    Then(for_body_loop(brace.st, <<>>), LAMBDA body :
        Ok(body.st,
           Stmt([tag |-> "ForLoop", var |-> var.v,
                 range |-> [start |-> start.v[1], end |-> end.v[1],
                            span |-> merge_with(start.v[2], end.v[2])],
                 body |-> body.v],
                token.span)))))))))

\* Stmt::parse, the `return` arm; token is the peeked `return`
Stmt_parse_return(st, token) ==
    Then(Expr_parse(bumped(st)), LAMBDA expr :
    Then(bump_expected(expr.st, Punct("SemiColon")), LAMBDA semi :
        Ok(semi.st, Stmt([tag |-> "Return", expr |-> expr.v], token.span))))

\* Stmt::parse, the last arm: an expression followed by `;`
Stmt_parse_expr(st) ==
    Then(Expr_parse(st), LAMBDA expr :
    Then(bump_expected(expr.st, Punct("SemiColon")), LAMBDA semi :
        Ok(semi.st, Stmt([tag |-> "Expr", expr |-> expr.v], expr.v.span))))

\* Stmt::parse, the arms on the peeked token
Stmt_parse_arm(st, token) ==
    CASE token.kind = Keyword(<<"l", "e", "t">>) -> Stmt_parse_let(st, token)
      [] token.kind = Keyword(<<"f", "o", "r">>) -> Stmt_parse_for(st, token)
      [] token.kind = Keyword(<<"i", "f">>) ->
            Panic(st, "if statements are not implemented yet")
      [] token.kind = Keyword(<<"r", "e", "t", "u", "r", "n">>) ->
            Stmt_parse_return(st, token)
      [] token.kind.tag = "Comment" ->
            Ok(bumped(st), Stmt([tag |-> "Comment", text |-> token.kind.text], token.span))
      [] OTHER -> Stmt_parse_expr(st)

\* Stmt::parse
Stmt_parse(st) ==
    IF peek(st) = None THEN ErrEof(st, "InvalidStatement", "", last_span(st))
    ELSE Stmt_parse_arm(st, unwrap(peek(st)))

(***************************************************************************)
(* Functions.                                                              *)
(***************************************************************************)
RECURSIVE fn_body_loop(_, _)
\* Function::parse_fn_body, the loop, were a statement in error skipped and
\* the parse resumed after it
fn_body_loop_resuming(st, body) ==
    IF is_some(peek(st)) /\ unwrap(peek(st)).kind.tag = "RightCurlyBracket"
    THEN Ok(bumped(st), body)
    ELSE IF Stmt_parse(begun(st)).k = "err" /\ ~Stmt_parse(begun(st)).eof
    THEN fn_body_loop(again(IF Stmt_parse(begun(st)).st.pos = st.pos
                            THEN bumped(Stmt_parse(begun(st)).st)
                            ELSE Stmt_parse(begun(st)).st),
                      body)
    ELSE Then(Stmt_parse(begun(st)), LAMBDA statement :
            fn_body_loop(again(grown(statement.st, Append(body, statement.v))),
                         Append(body, statement.v)))

\* Function::parse_fn_body, the loop over the statements
fn_body_loop(st, body) ==
    IF is_some(peek(st)) /\ unwrap(peek(st)).kind.tag = "RightCurlyBracket"
    THEN Ok(bumped(st), body)
    ELSE Then(Stmt_parse(begun(st)), LAMBDA statement :
            fn_body_loop(again(grown(statement.st, Append(body, statement.v))),
                         Append(body, statement.v)))

\* Function::parse_fn_body
parse_fn_body(st) ==
    Then(bump_expected(st, Punct("LeftCurlyBracket")), LAMBDA brace :
        fn_body_loop(brace.st, <<>>))

\* Function { sig, body, span }: the span runs from the first token to the
\* end of the last statement t
Function(name, arguments, return_type, body, first, t) ==
    [sig |-> [name |-> name, arguments |-> arguments, return_type |-> return_type],
     body |-> body,
     span |-> Span(first[1], (t.span[1] + t.span[2]) - first[1])]

\* Function::parse, the signature and the body; the result carries both
Function_parse_parts(st) ==
    Then(FnNameDef_parse(st), LAMBDA name :
    Then(Function_parse_args(name.st, name.v.self_name), LAMBDA arguments :
    Then(parse_fn_return_type(arguments.st), LAMBDA return_type :
    Then(parse_fn_body(return_type.st), LAMBDA body :
        Ok(body.st, [name |-> name.v, arguments |-> arguments.v,
                     return_type |-> return_type.v, body |-> body.v])))))

\* a variant of Function::parse that lets an empty body through
Function_parse_allow_empty(st) ==
    IF peek(st) = None
    THEN ErrEof(st, "InvalidFunctionSignature", "expected function name", last_span(st))
    ELSE Then(Function_parse_parts(st), LAMBDA parts :
            Ok(parts.st,
               Function(parts.v.name, parts.v.arguments, parts.v.return_type,
                        parts.v.body, unwrap(peek(st)).span,
                        IF parts.v.body = <<>>
                        THEN Stmt([tag |-> "none"], unwrap(peek(st)).span)
                        ELSE parts.v.body[Len(parts.v.body)])))

\* Function::parse
Function_parse(st) ==
    IF peek(st) = None
    THEN ErrEof(st, "InvalidFunctionSignature", "expected function name", last_span(st))
    ELSE Then(Function_parse_parts(st), LAMBDA parts :
            IF parts.v.body = <<>>
            THEN Err(parts.st, "InvalidFunctionSignature", "expected function body",
                     last_span(parts.st))
            ELSE Ok(parts.st,
                    Function(parts.v.name, parts.v.arguments, parts.v.return_type,
                             parts.v.body, unwrap(peek(st)).span,
                             parts.v.body[Len(parts.v.body)])))

(***************************************************************************)
(* Top-level items: use paths, constants, struct declarations.             *)
(***************************************************************************)
\* UsePath::parse
UsePath_parse(st) ==
    Then(bump_ident(st, "InvalidPath", "wrong path: expected a module"),
         LAMBDA module :
    Then(bump_expected(module.st, Punct("DoubleColon")), LAMBDA colons :
    Then(bump_ident(colons.st, "InvalidPath",
                    "wrong path: expected a submodule after ::"),
         LAMBDA submodule :
        Ok(submodule.st,
           [module |-> module.v, submodule |-> submodule.v,
            span |-> merge_with(module.v.span, submodule.v.span)]))))

\* the longest decimal numeral of a field element: the field's modulus has
\* that many digits
FieldDigits == 77

\* str::parse::<Field>: None when the string is no decimal numeral of a
\* field element; a numeral longer than the modulus is none
parse_field(digits) ==
    IF digits = <<>> \/ Len(digits) > FieldDigits THEN None ELSE Some(digits)

\* Const::parse, the value, were every expression node taken as a constant
Const_parse_value_any_node(st, value) ==
    IF value.kind.tag = "BigInt" /\ parse_field(value.kind.digits) = None
    THEN Err(st, "InvalidField", "", value.span)
    ELSE Ok(st, IF value.kind.tag = "BigInt" THEN value.kind.digits ELSE <<0>>)

\* Const::parse, the value: the field element of an integer-literal node
Const_parse_value(st, value) ==
    IF value.kind.tag # "BigInt"
    THEN ErrPeeked(st, "InvalidConstType", "", value.span)
    ELSE IF parse_field(value.kind.digits) = None
    THEN Err(st, "InvalidField", "", value.span)
    ELSE Ok(st, unwrap(parse_field(value.kind.digits)))

\* Const::parse
Const_parse(st) ==
    Then(Ident_parse(st), LAMBDA name :
    Then(bump_expected(name.st, Punct("Equal")), LAMBDA equal :
    Then(Expr_parse(equal.st), LAMBDA expr :
    Then(Const_parse_value(expr.st, expr.v), LAMBDA value :
    Then(bump_expected(value.st, Punct("SemiColon")), LAMBDA semi :
        Ok(semi.st, [name |-> name.v, value |-> value.v, span |-> name.v.span]))))))

RECURSIVE struct_fields_loop(_, _)
\* Struct::parse, the end of one field, were a `,` required after every field
struct_field_sep_comma_required(st, pushed) ==
    IF is_some(peek(st)) /\ unwrap(peek(st)).kind.tag = "Comma"
    THEN struct_fields_loop(again(bumped(grown(st, pushed))), pushed)
    ELSE ErrPeeked(grown(st, pushed), "ExpectedToken", "Comma", last_span(st))

\* Struct::parse, the end of one field: the push and the peeked separator
struct_field_sep(st, pushed) ==
    CASE is_some(peek(st)) /\ unwrap(peek(st)).kind.tag = "Comma" ->
            struct_fields_loop(again(bumped(grown(st, pushed))), pushed)
      [] is_some(peek(st)) /\ unwrap(peek(st)).kind.tag = "RightCurlyBracket" ->
            Ok(done(bumped(grown(st, pushed))), pushed)
      [] OTHER -> ErrPeeked(grown(st, pushed), "ExpectedToken", "Comma", last_span(st))

\* Struct::parse, the loop over the fields
struct_fields_loop(st, fields) ==
    IF is_some(peek(st)) /\ unwrap(peek(st)).kind.tag = "RightCurlyBracket"
    THEN Ok(bumped(st), fields)
    ELSE Then(Ident_parse(begun(st)), LAMBDA field_name :
         Then(bump_expected(field_name.st, Punct("Colon")), LAMBDA colon :
         Then(Ty_parse(colon.st), LAMBDA field_ty :
            struct_field_sep(field_ty.st,
                             Append(fields, <<field_name.v, field_ty.v>>)))))

\* Struct::parse
Struct_parse(st) ==
    IF peek(st) = None
    THEN ErrEof(st, "InvalidFunctionSignature", "expected function name", last_span(st))
    ELSE Then(CustomType_parse(st), LAMBDA name :
         Then(bump_expected(name.st, Punct("LeftCurlyBracket")), LAMBDA brace :
         Then(struct_fields_loop(brace.st, <<>>), LAMBDA fields :
            Ok(fields.st,
               [name |-> name.v, fields |-> fields.v,
                span |-> merge_with(unwrap(peek(st)).span, last_span(fields.st))]))))

(***************************************************************************)
(* The universe of TyKinds the relations are applied to.                   *)
(***************************************************************************)
\* the same module text at two places of the source, and another module
ModuleIdents ==
    {Ident("a", Span(0, 1)), Ident("a", Span(9, 1)), Ident("b", Span(0, 1))}

\* the same type name at two places of the source, and another name
NameIdents ==
    {Ident("Foo", Span(3, 3)), Ident("Foo", Span(12, 3)), Ident("Bar", Span(3, 3))}

\* the array sizes 3 and 4, as u32 numerals
ArraySizes == {<<3>>, <<4>>}

BaseKinds ==
    {TyField, TyBigInt, TyBool}
    \cup {TyCustom(m, n) : m \in {None} \cup {Some(i) : i \in ModuleIdents},
                           n \in NameIdents}

RECURSIVE TyKinds(_)
TyKinds(d) ==
    IF d = 0 THEN BaseKinds
    ELSE LET sub == TyKinds(d - 1)
         IN  sub \cup {TyArray(t, n) : t \in sub, n \in ArraySizes}

NoVerdict == [op |-> "none", val |-> FALSE]

\* the casing predicates at rest: no name, no answer
NameIdle ==
    /\ input_name = <<>>
    /\ casing = NoVerdict

\* the parser side of the state, at rest
ParserIdle ==
    /\ entry = "none"
    /\ self_name = None
    /\ tokens = <<>>
    /\ out = [k |-> "none", pos |-> 0, items |-> 0, exprs |-> 0, bumps |-> 0,
              stalled |-> FALSE, errors |-> <<>>, v |-> <<>>, e |-> NoError,
              eof |-> FALSE]

InitTy ==
    /\ lhs \in TyKinds(MaxDepth)
    /\ rhs \in TyKinds(MaxDepth)
    /\ verdict = NoVerdict
    /\ ParserIdle
    /\ NameIdle

\* lhs.match_expected(&rhs)
MatchExpected ==
    /\ verdict.op = "none"
    /\ verdict' = [op |-> "match_expected", val |-> match_expected(lhs, rhs)]
    /\ UNCHANGED <<lhs, rhs, entry, self_name, tokens, out, input_name, casing>>

\* lhs.same_as(&rhs)
SameAs ==
    /\ verdict.op = "none"
    /\ verdict' = [op |-> "same_as", val |-> same_as(lhs, rhs)]
    /\ UNCHANGED <<lhs, rhs, entry, self_name, tokens, out, input_name, casing>>

NextTy == MatchExpected \/ SameAs

SpecTy == InitTy /\ [][NextTy]_vars

(***************************************************************************)
(* Running the parsers.  The token stream starts empty and grows by one    *)
(* token for as long as the parser under run consumed every token it was   *)
(* given and either returned or failed on the end of the stream; each      *)
(* step runs the parser on the whole stream.                               *)
(***************************************************************************)
\* longest token stream handed to Ty::parse and CustomType::parse
MaxTyTokens == 9

\* longest token stream handed to the parsers of function names, arguments,
\* signatures and whole functions
MaxFnTokens == 8

\* longest token stream handed to the parsers of use paths, constants and
\* statements
MaxItemTokens == 9

\* longest token stream handed to the parsers of field lists, of struct
\* declarations and of struct literals
MaxFieldTokens == 10

\* most calls of Expr::parse a parse is let to make before its input is cut
MaxExprs == 2

\* longest list (arguments, fields, statements) a parse is let to build
\* before its input is cut
MaxItems == 2

NameX == <<"x">>
NameFoo == <<"F", "o", "o">>

IdentTexts == {NameSelf, NameX, NameFoo, NameField, NameBool}

\* 2 and 2^32
LiteralDigits == {<<2>>, <<4, 2, 9, 4, 9, 6, 7, 2, 9, 6>>}

KeywordTexts ==
    {<<"p", "u", "b">>, <<"c", "o", "n", "s", "t">>, <<"l", "e", "t">>,
     <<"m", "u", "t">>, <<"f", "o", "r">>, <<"i", "n">>, <<"i", "f">>,
     <<"r", "e", "t", "u", "r", "n">>, <<"t", "r", "u", "e">>}

PunctTags ==
    {"LeftParen", "RightParen", "LeftCurlyBracket", "RightCurlyBracket",
     "LeftBracket", "RightBracket", "Colon", "DoubleColon", "SemiColon",
     "Comma", "Dot", "DoubleDot", "RightArrow", "Equal"}

Alphabet ==
    {Identifier(n) : n \in IdentTexts}
    \cup {BigIntLit(d) : d \in LiteralDigits}
    \cup {Keyword(kw) : kw \in KeywordTexts}
    \cup {Punct(p) : p \in PunctTags}
    \cup {CommentTok(<<"/", "/">>)}

\* the number of characters of a token
Width(kind) ==
    CASE kind.tag \in {"Identifier", "Keyword", "Comment"} -> Len(kind.text)
      [] kind.tag = "BigInt" -> Len(kind.digits)
      [] kind.tag \in {"DoubleColon", "DoubleDot", "RightArrow"} -> 2
      [] OTHER -> 1

\* the stream with one more token, placed right after the last one
Lexed(toks, kind) ==
    LET start == IF toks = <<>> THEN 0
                 ELSE toks[Len(toks)].span[1] + toks[Len(toks)].span[2]
    IN  Append(toks, Token(kind, Span(start, Width(kind))))

\* what is kept of a parser's result: the cursor position, not the stream
Outcome(r) ==
    [k |-> r.k, pos |-> r.st.pos, items |-> r.st.items, exprs |-> r.st.exprs,
     bumps |-> r.st.bumps, stalled |-> r.st.stalled, errors |-> r.st.errors,
     v |-> r.v, e |-> r.e, eof |-> r.eof]

\* the type a method's `self` would name, as FnNameDef::parse hands it over
SelfNames == {None, Some(Ident(NameFoo, Span(0, 3)))}

TyIdle ==
    /\ lhs = TyField
    /\ rhs = TyField
    /\ verdict = NoVerdict

\* the longest stream an entry point is handed
Budget(e) ==
    CASE e \in {"Ty", "CustomType"} -> MaxTyTokens
      [] e \in {"FnNameDef", "Args", "FnSig", "Function"} -> MaxFnTokens
      [] e \in {"Struct", "TypeDeclaration"} -> MaxFieldTokens
      [] OTHER -> MaxItemTokens

\* the parser under run asks for more input
NeedsMore ==
    /\ Len(tokens) < Budget(entry)
    /\ out.items <= MaxItems
    /\ out.exprs <= MaxExprs
    /\ out.pos = Len(tokens)
    /\ (out.k = "ok" \/ (out.k = "err" /\ out.eof))

\* parse_type_declaration as Expr::parse calls it on `Name {`: the name
\* has been consumed and handed over as ident, the `{` is the next token
TypeDeclaration(toks) ==
    parse_type_declaration([Cursor(toks) EXCEPT !.pos = 1, !.bumps = 1],
                           Ident(toks[1].kind.text, toks[1].span))

\* the parser `e` run on the stream `toks`
Run(e, sn, toks) ==
    CASE e = "Ty" -> Outcome(Ty_parse(Cursor(toks)))
      [] e = "CustomType" -> Outcome(CustomType_parse(Cursor(toks)))
      [] e = "FnNameDef" -> Outcome(FnNameDef_parse(Cursor(toks)))
      [] e = "Args" -> Outcome(Function_parse_args(Cursor(toks), sn))
      [] e = "FnSig" -> Outcome(FnSig_parse(Cursor(toks)))
      [] e = "Function" -> Outcome(Function_parse(Cursor(toks)))
      [] e = "UsePath" -> Outcome(UsePath_parse(Cursor(toks)))
      [] e = "Const" -> Outcome(Const_parse(Cursor(toks)))
      [] e = "Struct" -> Outcome(Struct_parse(Cursor(toks)))
      [] e = "TypeDeclaration" -> Outcome(TypeDeclaration(toks))
      [] e = "Stmt" -> Outcome(Stmt_parse(Cursor(toks)))

\* the parser under run handed one more token
Feed ==
    /\ NeedsMore
    /\ \E kind \in Alphabet :
          /\ tokens' = Lexed(tokens, kind)
          /\ out' = Run(entry, self_name, tokens')
    /\ UNCHANGED <<lhs, rhs, verdict, entry, self_name, input_name, casing>>

Entries == {"Ty", "CustomType", "FnNameDef", "Args", "FnSig", "Function"}

Init ==
    /\ TyIdle
    /\ NameIdle
    /\ entry \in Entries
    /\ self_name \in (IF entry = "Args" THEN SelfNames ELSE {None})
    /\ tokens = <<>>
    /\ out = Run(entry, self_name, <<>>)

\* Ty::parse(ctx, tokens)
TyParse == entry = "Ty" /\ Feed

\* CustomType::parse(ctx, tokens)
CustomTypeParse == entry = "CustomType" /\ Feed

\* FnNameDef::parse(ctx, tokens)
FnNameDefParse == entry = "FnNameDef" /\ Feed

\* Function::parse_args(ctx, tokens, self_name)
ParseArgs == entry = "Args" /\ Feed

\* FnSig::parse(ctx, tokens)
FnSigParse == entry = "FnSig" /\ Feed

\* Function::parse(ctx, tokens)
FunctionParse == entry = "Function" /\ Feed

Next ==
    \/ TyParse
    \/ CustomTypeParse
    \/ FnNameDefParse
    \/ ParseArgs
    \/ FnSigParse
    \/ FunctionParse

Spec == Init /\ [][Next]_vars

(***************************************************************************)
(* Running the parsers of items, expressions and statements, on streams    *)
(* that also hold the integer literals at the edges of u32 and of the      *)
(* field.                                                                  *)
(***************************************************************************)
\* a literal one digit longer than any field element
OverField == [i \in 1..(FieldDigits + 1) |-> 9]

\* the literal 02, a number written with a leading zero
PaddedDigits == <<0, 2>>

ItemAlphabet ==
    Alphabet
    \cup {BigIntLit(U32MaxNumeral), BigIntLit(OverField), BigIntLit(PaddedDigits)}

\* the tokens handed to the parser of statements: the tokens of the
\* statement grammar, and `.` for one that is not
StmtAlphabet ==
    {Identifier(NameX), BigIntLit(<<2>>)}
    \cup {Keyword(kw) : kw \in KeywordTexts \ {<<"p", "u", "b">>,
                                                <<"c", "o", "n", "s", "t">>}}
    \cup {Punct(p) : p \in {"LeftParen", "RightParen", "LeftCurlyBracket",
                             "RightCurlyBracket", "SemiColon", "Comma",
                             "DoubleDot", "Equal", "Dot"}}
    \cup {CommentTok(<<"/", "/">>)}

\* the tokens handed to the parsers of constants and struct literals: those
\* of statements, and the type name and `:` of a struct literal
LiteralAlphabet ==
    StmtAlphabet \cup {Identifier(NameFoo), Punct("Colon")}

\* the literals at the edges, fed where such a number is read: the edges
\* of u32 after the `in` and the `..` of a for loop, the literal that is no
\* field element after the `=` of a constant
EdgeLiterals(e, toks) ==
    CASE toks = <<>> -> {}
      [] e = "Stmt" /\ toks[Len(toks)].kind \in {Keyword(<<"i", "n">>),
                                                  Punct("DoubleDot")} ->
            {BigIntLit(d) : d \in LiteralDigits \cup {U32MaxNumeral}}
      [] e = "Const" /\ toks[Len(toks)].kind = Punct("Equal") ->
            {BigIntLit(OverField)}
      [] OTHER -> {}

\* the tokens an item parser is handed after `toks`
EntryAlphabet(e, toks) ==
    CASE e = "Stmt" -> StmtAlphabet \cup EdgeLiterals(e, toks)
      [] e \in {"TypeDeclaration", "Const"} ->
            LiteralAlphabet \cup EdgeLiterals(e, toks)
      [] OTHER -> ItemAlphabet

ItemEntries == {"UsePath", "Const", "Struct", "TypeDeclaration", "Stmt"}

\* the start of a struct literal: a type name and `{`
LiteralHead ==
    Lexed(Lexed(<<>>, Identifier(NameFoo)), Punct("LeftCurlyBracket"))

InitItems ==
    /\ TyIdle
    /\ NameIdle
    /\ entry \in ItemEntries
    /\ self_name = None
    /\ tokens = IF entry = "TypeDeclaration" THEN LiteralHead ELSE <<>>
    /\ out = Run(entry, self_name, tokens)

\* the item parser under run handed one more token
FeedItem ==
    /\ NeedsMore
    /\ \E kind \in EntryAlphabet(entry, tokens) :
          /\ tokens' = Lexed(tokens, kind)
          /\ out' = Run(entry, self_name, tokens')
    /\ UNCHANGED <<lhs, rhs, verdict, entry, self_name, input_name, casing>>

\* UsePath::parse(ctx, tokens)
UsePathParse == entry = "UsePath" /\ FeedItem

\* Const::parse(ctx, tokens)
ConstParse == entry = "Const" /\ FeedItem

\* Struct::parse(ctx, tokens)
StructParse == entry = "Struct" /\ FeedItem

\* parse_type_declaration(ctx, tokens, ident)
ParseTypeDeclaration == entry = "TypeDeclaration" /\ FeedItem

\* Stmt::parse(ctx, tokens)
StmtParse == entry = "Stmt" /\ FeedItem

NextItems ==
    \/ UsePathParse
    \/ ConstParse
    \/ StructParse
    \/ ParseTypeDeclaration
    \/ StmtParse

SpecItems == InitItems /\ [][NextItems]_vars

(***************************************************************************)
(* Every parser of the file, each run on the streams of its own driver.    *)
(***************************************************************************)
InitAll == Init \/ InitItems

NextAll == Next \/ NextItems

SpecAll == InitAll /\ [][NextAll]_vars

(***************************************************************************)
(* The casing predicates, applied to every name of up to MaxNameLen        *)
(* characters: a lowercase letter, an uppercase letter, a digit, the       *)
(* underscore and a character that is none of these.                       *)
(***************************************************************************)
NameChars == {"f", "F", "7", "_", "-"}

Names == UNION {[1..n -> NameChars] : n \in 0..MaxNameLen}

InitNames ==
    /\ TyIdle
    /\ ParserIdle
    /\ input_name \in Names
    /\ casing = NoVerdict

\* is_valid_fn_name(input_name)
IsValidFnName ==
    /\ casing' = [op |-> "is_valid_fn_name", val |-> is_valid_fn_name(input_name)]
    /\ UNCHANGED <<lhs, rhs, verdict, entry, self_name, tokens, out, input_name>>

\* is_valid_fn_type(input_name)
IsValidFnType ==
    /\ casing' = [op |-> "is_valid_fn_type", val |-> is_valid_fn_type(input_name)]
    /\ UNCHANGED <<lhs, rhs, verdict, entry, self_name, tokens, out, input_name>>

NextNames == IsValidFnName \/ IsValidFnType

SpecNames == InitNames /\ [][NextNames]_vars

(***************************************************************************)
(* Claims about the equivalence relations (checked under SpecTy).          *)
(***************************************************************************)

\* C1: match_expected is directional on the Field/BigInt pair:
\* match_expected(BigInt, Field) is true and match_expected(Field, BigInt)
\* is false.
C1_MatchExpectedDirectional ==
    verdict.op = "match_expected" =>
        /\ (lhs = TyBigInt /\ rhs = TyField => verdict.val = TRUE)
        /\ (lhs = TyField /\ rhs = TyBigInt => verdict.val = FALSE)

C1_Witness ==
    /\ verdict.op = "match_expected"
    /\ lhs = TyField /\ rhs = TyBigInt
    /\ verdict.val = FALSE
    /\ match_expected(rhs, lhs)

\* C2 (as claimed): same_as is reflexive, and symmetric on every pair of
\* TyKinds, arrays of any nesting depth included.
C2_SameAsReflexiveSymmetric ==
    verdict.op = "same_as" =>
        /\ same_as(lhs, lhs)
        /\ verdict.val = same_as(rhs, lhs)

IsArray(t) == t.tag = "Array"

\* C2 (amended): same_as is reflexive on every TyKind, and symmetric on
\* every pair of TyKinds that are not both arrays; in particular
\* same_as(Field, BigInt) = same_as(BigInt, Field) = true.
C2_SameAsSymmetricOffArrays ==
    verdict.op = "same_as" =>
        /\ same_as(lhs, lhs)
        /\ (~(IsArray(lhs) /\ IsArray(rhs)) => verdict.val = same_as(rhs, lhs))
        /\ (lhs = TyField /\ rhs = TyBigInt => verdict.val /\ same_as(rhs, lhs))

C2_Witness ==
    /\ verdict.op = "same_as"
    /\ lhs = TyField /\ rhs = TyBigInt
    /\ verdict.val = TRUE

\* C3: under both relations Array(a, n) relates to Array(b, m) iff n = m
\* and match_expected(a, b) holds on the element types; arrays of
\* different sizes are never related.
C3_ArrayRule ==
    (verdict.op # "none" /\ IsArray(lhs) /\ IsArray(rhs)) =>
        /\ verdict.val = (lhs.size = rhs.size /\ match_expected(lhs.elem, rhs.elem))
        /\ (lhs.size # rhs.size => verdict.val = FALSE)

\* same_as on arrays whose elements match_expected relates one way only
C3_Witness ==
    /\ verdict.op = "same_as"
    /\ IsArray(lhs) /\ IsArray(rhs)
    /\ lhs.size = rhs.size
    /\ lhs.elem = TyBigInt /\ rhs.elem = TyField
    /\ verdict.val = TRUE
    /\ ~same_as(rhs, lhs)

IsCustom(t) == t.tag = "Custom"

\* C4: under both relations two Custom types are related iff their name
\* texts are equal and either one side has no module or both module texts
\* are equal; the spans of the identifiers play no part.
C4_CustomByText ==
    (verdict.op # "none" /\ IsCustom(lhs) /\ IsCustom(rhs)) =>
        verdict.val =
            (/\ lhs.name.value = rhs.name.value
             /\ \/ lhs.module = None
                \/ rhs.module = None
                \/ unwrap(lhs.module).value = unwrap(rhs.module).value)

\* C20: same_as and match_expected give the same answer on every pair of
\* TyKinds but (Field, BigInt), where same_as is true and match_expected
\* false; so match_expected(a, b) implies same_as(a, b).
C20_RelationsDifferOnOnePair ==
    /\ verdict.op = "same_as" =>
          /\ (lhs = TyField /\ rhs = TyBigInt) =>
                (verdict.val /\ ~match_expected(lhs, rhs))
          /\ ~(lhs = TyField /\ rhs = TyBigInt) =>
                (verdict.val = match_expected(lhs, rhs))
    /\ verdict.op = "match_expected" =>
          /\ ~(lhs = TyField /\ rhs = TyBigInt) => (verdict.val = same_as(lhs, rhs))
          /\ verdict.val => same_as(lhs, rhs)

\* match_expected has refused the pair (Field, BigInt) that same_as accepts
C20_Witness ==
    /\ verdict.op = "match_expected"
    /\ lhs = TyField /\ rhs = TyBigInt
    /\ ~verdict.val
    /\ same_as(lhs, rhs)

(***************************************************************************)
(* Claims about the parsers (checked under Spec).                          *)
(***************************************************************************)
\* the span from the first token of the stream to the last token consumed
ConsumedSpan == merge_with(tokens[1].span, tokens[out.pos].span)

\* every name that follows a `::` in the stream is type-cased
QualifiedNamesTypeCased ==
    \A i \in 2..Len(tokens) :
        tokens[i - 1].kind.tag = "DoubleColon" => is_type(tokens[i].kind.text)

\* C5: whenever Ty::parse accepts a well-formed type (`Name`, `module::Name`,
\* `[type; n]`), the TyKind has the shape the first token announces (Field,
\* Bool, a Custom type, an Array for `[`) and the span runs from the first
\* token of the type to its last token.
C5_TyParseSpanCoversType ==
    (entry = "Ty" /\ out.k = "ok" /\ QualifiedNamesTypeCased) =>
        /\ (tokens[1].kind.tag = "LeftBracket") = (out.v.kind.tag = "Array")
        /\ (tokens[1].kind = Identifier(NameField)) = (out.v.kind = TyField)
        /\ (tokens[1].kind = Identifier(NameBool)) = (out.v.kind = TyBool)
        /\ out.v.kind.tag \in {"Field", "Bool", "Custom", "Array"}
        /\ out.v.span = ConsumedSpan

RECURSIVE ReservedCustom(_)
\* a TyKind that is, or holds, a Custom type named Field or Bool
ReservedCustom(kind) ==
    CASE kind.tag = "Custom" -> kind.name.value \in {NameField, NameBool}
      [] kind.tag = "Array" -> ReservedCustom(kind.elem)
      [] OTHER -> FALSE

\* an argument list holds a Custom type named Field or Bool
ReservedArgument(arguments) ==
    \E i \in 1..Len(arguments) : ReservedCustom(arguments[i].typ.kind)

\* a signature holds a Custom type named Field or Bool
ReservedSig(sig) ==
    \/ ReservedArgument(sig.arguments)
    \/ is_some(sig.return_type) /\ ReservedCustom(unwrap(sig.return_type).kind)

\* C6: no parser returns a Custom type or a CustomType named Field or Bool
\* (the synthesized type of `self` included), and CustomType::parse on a
\* reserved name returns a ReservedType error.
C6_NoReservedCustom ==
    /\ out.k = "ok" =>
          CASE entry = "Ty" -> ~ReservedCustom(out.v.kind)
            [] entry = "CustomType" -> out.v.value \notin {NameField, NameBool}
            [] entry = "Args" -> ~ReservedArgument(out.v)
            [] entry = "FnSig" -> ~ReservedSig(out.v)
            [] entry = "Function" -> ~ReservedSig(out.v.sig)
            [] OTHER -> TRUE
    /\ (/\ entry = "CustomType"
        /\ tokens # <<>>
        /\ tokens[1].kind \in {Identifier(NameField), Identifier(NameBool)})
       => (out.k = "err" /\ out.e.kind = "ReservedType")

\* C7: no token sequence makes a parser abort: every run ends in a value or
\* in a recoverable error.
C7_NoAbort == out.k \in {"ok", "err"}

\* C8: Function::parse_args accepts `self` only as the first argument of a
\* method and without attribute, consumes no `:` and no type for it and
\* gives it the type Custom{module: None, name: self_name}; `self` outside
\* a method, after another argument or under `pub`/`const` is a
\* recoverable error.
C8_SelfArgument ==
    entry = "Args" =>
        /\ out.k = "ok" =>
              \A i \in 1..Len(out.v) :
                  out.v[i].name.value = NameSelf =>
                      /\ i = 1
                      /\ out.v[i].attribute = None
                      /\ is_some(self_name)
                      /\ out.v[i].typ = Ty(TyCustom(None, unwrap(self_name)),
                                           unwrap(self_name).span)
                      /\ tokens[2].kind = Identifier(NameSelf)
                      /\ tokens[3].kind \in {Punct("Comma"), Punct("RightParen")}
        /\ (/\ Len(tokens) >= 2
            /\ tokens[1].kind = Punct("LeftParen")
            /\ tokens[2].kind = Identifier(NameSelf)
            /\ self_name = None)
           => (/\ out.k = "err"
               /\ out.e.kind = "InvalidFunctionSignature"
               /\ out.e.msg = "the self argument is only allowed in struct methods")
        /\ (/\ out.pos >= 3
            /\ out.pos = Len(tokens)
            /\ tokens[out.pos].kind = Identifier(NameSelf)
            /\ tokens[out.pos - 1].kind = Punct("Comma"))
           => (/\ out.k = "err"
               /\ ~out.eof
               /\ out.e.kind = "InvalidFunctionSignature"
               /\ out.e.span = tokens[out.pos].span)
        /\ (/\ Len(tokens) >= 4
            /\ tokens[1].kind = Punct("LeftParen")
            /\ tokens[2].kind \in {Keyword(<<"p", "u", "b">>),
                                   Keyword(<<"c", "o", "n", "s", "t">>)}
            /\ tokens[3].kind = Identifier(NameSelf)
            /\ is_some(self_name))
           => (out.k = "err" /\ out.e.kind = "SelfHasAttribute")

\* Function::parse_args has accepted `self` followed by a second argument
C8_Witness ==
    /\ entry = "Args"
    /\ out.k = "ok"
    /\ Len(out.v) = 2
    /\ out.v[1].name.value = NameSelf
    /\ out.v[2].name.value # NameSelf

\* C9: FnNameDef::parse returns self_name = Some(first identifier) exactly
\* when the first identifier is type-cased; then a `.` and a second,
\* value-cased identifier follow and the second is the name; otherwise
\* self_name is None and the name is the first identifier.
C9_FnNameDefCasing ==
    (entry = "FnNameDef" /\ out.k = "ok") =>
        /\ is_some(out.v.self_name) = is_type(tokens[1].kind.text)
        /\ is_some(out.v.self_name) =>
              /\ unwrap(out.v.self_name) = Ident(tokens[1].kind.text, tokens[1].span)
              /\ tokens[2].kind = Punct("Dot")
              /\ out.v.name = Ident(tokens[3].kind.text, tokens[3].span)
              /\ is_valid_fn_name(out.v.name.value)
        /\ out.v.self_name = None =>
              out.v.name = Ident(tokens[1].kind.text, tokens[1].span)

\* the stream ends with the braces of a function body holding no statement
EmptyBody ==
    /\ out.pos >= 3
    /\ out.pos = Len(tokens)
    /\ tokens[out.pos].kind = Punct("RightCurlyBracket")
    /\ tokens[out.pos - 1].kind = Punct("LeftCurlyBracket")
    /\ \/ tokens[out.pos - 2].kind \in {Punct("RightParen"), Punct("RightBracket")}
       \/ out.pos >= 4 /\ tokens[out.pos - 3].kind = Punct("RightArrow")

\* C10: every Function that Function::parse returns has at least one
\* statement in its body, and a body of empty braces is rejected with the
\* error InvalidFunctionSignature("expected function body").
C10_BodyNotEmpty ==
    entry = "Function" =>
        /\ out.k = "ok" => Len(out.v.body) >= 1
        /\ EmptyBody =>
              /\ out.k = "err"
              /\ ~out.eof
              /\ out.e.kind = "InvalidFunctionSignature"
              /\ out.e.msg = "expected function body"

\* Function::parse has rejected a function for its empty body
C10_Witness ==
    /\ entry = "Function"
    /\ EmptyBody
    /\ out.k = "err"
    /\ out.e.msg = "expected function body"

(***************************************************************************)
(* Claims about use paths, constants, structs, struct literals and         *)
(* statements (checked under SpecItems).                                   *)
(***************************************************************************)
\* C14: UsePath::parse accepts exactly two segments: it returns
\* UsePath{module, submodule} on `module :: submodule`, and it fails when a
\* further `::` follows the submodule.
C14_UsePathTwoSegments ==
    entry = "UsePath" =>
        /\ out.k = "ok" =>
              /\ out.v.module = Ident(tokens[1].kind.text, tokens[1].span)
              /\ tokens[2].kind = Punct("DoubleColon")
              /\ out.v.submodule = Ident(tokens[3].kind.text, tokens[3].span)
        /\ (Len(tokens) >= 4 /\ tokens[4].kind = Punct("DoubleColon")) =>
              out.k # "ok"

\* the stream starts with `name =`
ConstHead ==
    /\ Len(tokens) >= 3
    /\ tokens[1].kind.tag = "Identifier"
    /\ tokens[2].kind = Punct("Equal")

\* the expression that Expr::parse reads after `name =`
ConstValue == Expr_parse([Cursor(tokens) EXCEPT !.pos = 2])

\* C13: Const::parse succeeds only on `name = literal ;`, with the literal
\* as value; a right-hand side of another shape (`true`, a variable, a call)
\* is a recoverable InvalidConstType error, a literal that is no field
\* element is InvalidField, and a literal not followed by `;` is an error.
C13_ConstIsLiteral ==
    entry = "Const" =>
        /\ out.k \in {"ok", "err"}
        /\ out.k = "ok" =>
              /\ ConstHead
              /\ tokens[3].kind.tag = "BigInt"
              /\ tokens[4].kind = Punct("SemiColon")
              /\ out.pos = 4
              /\ out.v.name = Ident(tokens[1].kind.text, tokens[1].span)
              /\ out.v.value = tokens[3].kind.digits
              /\ parse_field(tokens[3].kind.digits) = Some(out.v.value)
        /\ (ConstHead /\ tokens[3].kind.tag # "BigInt") => out.k = "err"
        /\ (ConstHead /\ tokens[3].kind = Keyword(<<"t", "r", "u", "e">>)) =>
              /\ out.e.kind = "InvalidConstType"
              /\ out.e.span = tokens[3].span
        /\ (/\ ConstHead
            /\ tokens[3].kind.tag = "Identifier"
            /\ Len(tokens) >= 4
            /\ tokens[4].kind.tag \notin {"LeftParen", "LeftCurlyBracket"}) =>
              /\ out.e.kind = "InvalidConstType"
              /\ out.e.span = tokens[3].span
        /\ (ConstHead /\ ConstValue.k = "ok" /\ ConstValue.v.kind.tag # "BigInt") =>
              /\ out.e.kind = "InvalidConstType"
              /\ out.e.span = ConstValue.v.span
              /\ out.pos = ConstValue.st.pos
        /\ (ConstHead /\ tokens[3].kind = BigIntLit(OverField)) =>
              /\ out.k = "err"
              /\ out.e.kind = "InvalidField"
              /\ out.e.span = tokens[3].span
        /\ (/\ ConstHead
            /\ tokens[3].kind.tag = "BigInt"
            /\ tokens[3].kind # BigIntLit(OverField)
            /\ ~(Len(tokens) >= 4 /\ tokens[4].kind = Punct("SemiColon"))) =>
              /\ out.k = "err"
              /\ IF Len(tokens) = 3
                 THEN out.e.kind = "MissingToken"
                 ELSE out.e.kind = "ExpectedToken" /\ out.e.msg = "SemiColon"

\* Const::parse has refused a function call as the value of a constant
C13_Witness ==
    /\ entry = "Const"
    /\ ConstHead
    /\ tokens[3].kind.tag = "Identifier"
    /\ tokens[Len(tokens)].kind = Punct("RightParen")
    /\ out.pos = Len(tokens)
    /\ out.k = "err"
    /\ out.e.kind = "InvalidConstType"

\* the cursor over the stream with its first i tokens consumed
CursorAt(i) == [Cursor(tokens) EXCEPT !.pos = i]

\* the number of `{` and `(` still open before the token at p
Nesting(p) ==
    Cardinality({i \in 1..(p - 1) :
                    tokens[i].kind.tag \in {"LeftCurlyBracket", "LeftParen"}})
    - Cardinality({i \in 1..(p - 1) :
                    tokens[i].kind.tag \in {"RightCurlyBracket", "RightParen"}})

\* the places of the stream where a field of the list starts: `name :`
\* right inside the braces of the list
FieldPositions ==
    {p \in 3..(out.pos - 1) :
        /\ Nesting(p) = 1
        /\ tokens[p].kind.tag = "Identifier"
        /\ tokens[p + 1].kind.tag = "Colon"}

\* the place where the k-th field of the stream starts
FieldAt(k) ==
    CHOOSE p \in FieldPositions :
        Cardinality({q \in FieldPositions : q < p}) = k - 1

\* the type (declaration) or expression (literal) read after `name :` at p
FieldValue(p) ==
    IF entry = "Struct"
    THEN Ty_parse(CursorAt(p + 1))
    ELSE Expr_parse(CursorAt(p + 1))

\* the list of fields of the node returned
FieldsOut == IF entry = "Struct" THEN out.v.fields ELSE out.v.kind.fields

\* the list is well formed up to p: closed with `}` there, it is accepted
FieldListOpenAt(p) ==
    LET closed == Run(entry, None,
                      Lexed(SubSeq(tokens, 1, p - 1), Punct("RightCurlyBracket")))
    IN  closed.k = "ok" /\ closed.pos = p

\* a field starts at p, in a list well formed so far, and its value is read
FieldReadAt(p) ==
    /\ p + 1 <= Len(tokens)
    /\ tokens[p].kind.tag = "Identifier"
    /\ tokens[p + 1].kind.tag = "Colon"
    /\ FieldListOpenAt(p)
    /\ FieldValue(p).k = "ok"

\* the error of a field list on a token that is neither `,` nor `}`
SeparatorError(q) ==
    /\ out.k = "err"
    /\ out.v = <<>>
    /\ IF entry = "Struct"
       THEN out.e.kind = "ExpectedToken" /\ out.e.msg = "Comma" /\ out.pos = q
       ELSE out.e.kind = "InvalidEndOfLine" /\ out.pos = IF q = Len(tokens) THEN q ELSE q + 1

\* C11: Struct::parse and parse_type_declaration return the fields in the
\* order of the token stream; after a field a `}` ends the list, with or
\* without a `,` before it, and any other token or the end of input is a
\* recoverable error (ExpectedToken(Comma) for declarations,
\* InvalidEndOfLine for literals) with no node.
C11_FieldListInOrder ==
    entry \in {"Struct", "TypeDeclaration"} =>
        /\ out.k = "ok" =>
              /\ Len(FieldsOut) = Cardinality(FieldPositions)
              /\ \A k \in 1..Len(FieldsOut) :
                    /\ FieldsOut[k][1] = Ident(tokens[FieldAt(k)].kind.text,
                                               tokens[FieldAt(k)].span)
                    /\ FieldsOut[k][2] = FieldValue(FieldAt(k)).v
              /\ tokens[out.pos].kind = Punct("RightCurlyBracket")
        /\ \A p \in 3..Len(tokens) :
              FieldReadAt(p) =>
                  LET q == FieldValue(p).st.pos
                  IN  CASE q = Len(tokens) -> SeparatorError(q)
                        [] tokens[q + 1].kind = Punct("RightCurlyBracket") ->
                              out.k = "ok" /\ out.pos = q + 1
                        [] tokens[q + 1].kind = Punct("Comma") ->
                              /\ out.pos >= q + 1
                              /\ (Len(tokens) >= q + 2
                                  /\ tokens[q + 2].kind = Punct("RightCurlyBracket"))
                                 => (out.k = "ok" /\ out.pos = q + 2)
                        [] OTHER -> SeparatorError(q)

\* a struct literal of two fields, the last without a trailing comma, has
\* been accepted
C11_Witness ==
    /\ entry = "TypeDeclaration"
    /\ out.k = "ok"
    /\ Len(out.v.kind.fields) = 2
    /\ out.v.kind.fields[1][1].value = NameX
    /\ out.v.kind.fields[2][1].value = NameFoo
    /\ tokens[out.pos - 1].kind # Punct("Comma")

\* the stream starts with `for name in`
ForHead ==
    /\ Len(tokens) >= 3
    /\ tokens[1].kind = Keyword(<<"f", "o", "r">>)
    /\ tokens[2].kind.tag = "Identifier"
    /\ tokens[3].kind = Keyword(<<"i", "n">>)

\* the token at i is an integer literal that fits a u32
BoundAt(i) ==
    /\ Len(tokens) >= i
    /\ tokens[i].kind.tag = "BigInt"
    /\ parse_u32(tokens[i].kind.digits) # None

\* the recoverable error of a for loop on the token at i, no bound
NoBoundAt(i) ==
    /\ out.k = "err"
    /\ ~out.eof
    /\ out.v = <<>>
    /\ out.e.kind = "ExpectedToken"
    /\ out.e.msg = "BigInt"
    /\ out.e.span = tokens[i].span

\* C12: a statement Stmt::parse accepts on `for name in A .. B {` is a
\* ForLoop over `name` whose Range.start and Range.end are the values of
\* the literals A and B; a token that is no integer literal in the place
\* of A or of B is a recoverable ExpectedToken(integer literal) error, with
\* no node.
C12_ForLoopBounds ==
    (entry = "Stmt" /\ tokens # <<>> /\ tokens[1].kind = Keyword(<<"f", "o", "r">>)) =>
        /\ out.k = "ok" =>
              /\ ForHead /\ BoundAt(4) /\ BoundAt(6)
              /\ tokens[5].kind = Punct("DoubleDot")
              /\ tokens[7].kind = Punct("LeftCurlyBracket")
              /\ tokens[out.pos].kind = Punct("RightCurlyBracket")
              /\ out.v.kind.tag = "ForLoop"
              /\ out.v.kind.var = Ident(tokens[2].kind.text, tokens[2].span)
              /\ out.v.kind.range.start = strip_zeros(tokens[4].kind.digits)
              /\ out.v.kind.range.end = strip_zeros(tokens[6].kind.digits)
              /\ out.v.kind.range.span = merge_with(tokens[4].span, tokens[6].span)
        /\ (ForHead /\ Len(tokens) >= 4 /\ tokens[4].kind.tag # "BigInt") =>
              NoBoundAt(4)
        /\ (/\ ForHead /\ BoundAt(4)
            /\ Len(tokens) >= 6
            /\ tokens[5].kind = Punct("DoubleDot")
            /\ tokens[6].kind.tag # "BigInt") =>
              NoBoundAt(6)

\* Stmt::parse has returned a for loop from 2 to 4294967295 with a statement
\* in its body
C12_Witness ==
    /\ entry = "Stmt"
    /\ out.k = "ok"
    /\ out.v.kind.tag = "ForLoop"
    /\ out.v.kind.range.start = <<2>>
    /\ out.v.kind.range.end = U32MaxNumeral
    /\ Len(out.v.kind.body) = 1

\* the digit of the numeral a at the i-th place from the right
DigitAt(a, i) == IF i <= Len(a) THEN a[Len(a) + 1 - i] ELSE 0

\* the numerals a and b write the same number
SameNumber(a, b) ==
    \A i \in 1..(IF Len(a) >= Len(b) THEN Len(a) ELSE Len(b)) :
        DigitAt(a, i) = DigitAt(b, i)

\* n is the numeral of a number in 0..2^32-1
IsU32(n) ==
    /\ n # <<>>
    /\ Len(n) > 1 => n[1] # 0
    /\ Len(n) <= Len(U32MaxNumeral)
    /\ Len(n) = Len(U32MaxNumeral) => numeral_le(n, U32MaxNumeral)

\* the literal `digits` writes a number over 2^32-1
OverU32(digits) ==
    \E i \in 1..Len(digits) :
        /\ digits[i] # 0
        /\ \A j \in 1..(i - 1) : digits[j] = 0
        /\ \/ Len(digits) - i + 1 > Len(U32MaxNumeral)
           \/ /\ Len(digits) - i + 1 = Len(U32MaxNumeral)
              /\ ~numeral_le(SubSeq(digits, i, Len(digits)), U32MaxNumeral)

RECURSIVE SizesOf(_)
\* the sizes of an array type, from the innermost array to the outermost
SizesOf(kind) ==
    IF kind.tag = "Array" THEN Append(SizesOf(kind.elem), kind.size) ELSE <<>>

\* the places p+2..q of a field's type where a `]` stands, in stream order
ClosingBrackets(p, q) ==
    {i \in (p + 2)..q : tokens[i].kind.tag = "RightBracket"}

\* the place of the k-th `]` of the type of the field at p
ClosingAt(p, q, k) ==
    CHOOSE i \in ClosingBrackets(p, q) :
        Cardinality({j \in ClosingBrackets(p, q) : j < i}) = k - 1

\* the token last consumed stands where a u32 is read: after the `;` of an
\* array type, or after the `in` or the `..` of a for loop
SizePlace ==
    /\ out.pos >= 2
    /\ \/ entry = "Struct" /\ tokens[out.pos - 1].kind = Punct("SemiColon")
       \/ /\ entry = "Stmt"
          /\ out.pos \in {4, 6}
          /\ tokens[1].kind = Keyword(<<"f", "o", "r">>)
          /\ tokens[out.pos - 1].kind \in {Keyword(<<"i", "n">>), Punct("DoubleDot")}

\* C16: every array size and every bound of a for loop in a node returned
\* is the number the literal writes, a number in 0..2^32-1; a literal over
\* 2^32-1 in such a place is a recoverable error (InvalidArraySize for an
\* array, InvalidRangeSize for a loop), never a wrapped number, and a token
\* that is no literal in the place of an array size is a recoverable
\* ExpectedToken error.
C16_U32Literals ==
    /\ (entry = "Struct" /\ out.k = "ok") =>
          \A k \in 1..Len(out.v.fields) :
              LET p == FieldAt(k)
                  q == IF k < Len(out.v.fields) THEN FieldAt(k + 1) - 1 ELSE out.pos
                  sizes == SizesOf(out.v.fields[k][2].kind)
              IN  /\ Len(sizes) = Cardinality(ClosingBrackets(p, q))
                  /\ \A n \in 1..Len(sizes) :
                        /\ IsU32(sizes[n])
                        /\ tokens[ClosingAt(p, q, n) - 1].kind.tag = "BigInt"
                        /\ SameNumber(sizes[n],
                                      tokens[ClosingAt(p, q, n) - 1].kind.digits)
    /\ (entry = "Stmt" /\ out.k = "ok" /\ out.v.kind.tag = "ForLoop") =>
          /\ IsU32(out.v.kind.range.start)
          /\ IsU32(out.v.kind.range.end)
          /\ SameNumber(out.v.kind.range.start, tokens[4].kind.digits)
          /\ SameNumber(out.v.kind.range.end, tokens[6].kind.digits)
    /\ (SizePlace /\ tokens[out.pos].kind.tag = "BigInt"
        /\ OverU32(tokens[out.pos].kind.digits)) =>
          /\ out.k = "err"
          /\ ~out.eof
          /\ out.v = <<>>
          /\ out.e.kind = IF entry = "Struct" THEN "InvalidArraySize"
                                               ELSE "InvalidRangeSize"
          /\ out.e.span = tokens[out.pos].span
    /\ (SizePlace /\ entry = "Struct" /\ tokens[out.pos].kind.tag # "BigInt") =>
          /\ out.k = "err"
          /\ ~out.eof
          /\ out.e.kind = "ExpectedToken"
          /\ out.e.msg = "BigInt"
          /\ out.e.span = tokens[out.pos].span

\* Struct::parse has returned a field whose array type has the size 2,
\* written 02 in the source
C16_Witness ==
    /\ entry = "Struct"
    /\ out.k = "ok"
    /\ Len(out.v.fields) = 1
    /\ out.v.fields[1][2].kind.tag = "Array"
    /\ out.v.fields[1][2].kind.size = <<2>>
    /\ tokens[out.pos - 2].kind = BigIntLit(PaddedDigits)

\* the production that the lead token of a statement selects
Production(lead) ==
    CASE lead = Keyword(<<"l", "e", "t">>) -> "Assign"
      [] lead = Keyword(<<"f", "o", "r">>) -> "ForLoop"
      [] lead = Keyword(<<"i", "f">>) -> "If"
      [] lead = Keyword(<<"r", "e", "t", "u", "r", "n">>) -> "Return"
      [] lead.tag = "Comment" -> "Comment"
      [] OTHER -> "Expr"

\* the expression that Expr::parse reads at the start of the stream
LeadExpr == Expr_parse(CursorAt(0))

\* C18: Stmt::parse selects its production by the first token alone: a
\* statement returned for `let` is an Assign, mutable exactly when `mut`
\* is the second token, for `for` a ForLoop, for `return` a Return, for a
\* comment a Comment; `if` returns no statement; any other token gives the
\* expression read there as an Expr statement, which a `;` must follow.
\* The cursor has handed out each token it passed exactly once.
C18_StmtDispatch ==
    (entry = "Stmt" /\ tokens # <<>>) =>
        /\ out.bumps = out.pos
        /\ out.pos <= Len(tokens)
        /\ out.k = "ok" => out.v.kind.tag = Production(tokens[1].kind)
        /\ Production(tokens[1].kind) = "If" => (out.k # "ok" /\ out.pos = 0)
        /\ (out.k = "ok" /\ Production(tokens[1].kind) = "Assign") =>
              /\ out.v.kind.mutable = (tokens[2].kind = Keyword(<<"m", "u", "t">>))
              /\ LET at == IF out.v.kind.mutable THEN 3 ELSE 2
                 IN  /\ out.v.kind.lhs = Ident(tokens[at].kind.text, tokens[at].span)
                     /\ tokens[at + 1].kind = Punct("Equal")
              /\ tokens[out.pos].kind = Punct("SemiColon")
        /\ (out.k = "ok" /\ Production(tokens[1].kind) = "Return") =>
              tokens[out.pos].kind = Punct("SemiColon")
        /\ (out.k = "ok" /\ Production(tokens[1].kind) = "Comment") =>
              /\ out.pos = 1
              /\ out.v.kind.text = tokens[1].kind.text
        /\ Production(tokens[1].kind) = "Expr" =>
              /\ out.k = "ok" =>
                    /\ LeadExpr.k = "ok"
                    /\ out.v.kind.expr = LeadExpr.v
                    /\ out.pos = LeadExpr.st.pos + 1
                    /\ tokens[out.pos].kind = Punct("SemiColon")
              /\ LeadExpr.k # "ok" => (out.k = LeadExpr.k /\ out.e = LeadExpr.e)
              /\ (/\ LeadExpr.k = "ok"
                  /\ LeadExpr.st.pos < Len(tokens)
                  /\ tokens[LeadExpr.st.pos + 1].kind # Punct("SemiColon")) =>
                    /\ out.k = "err"
                    /\ out.e.kind = "ExpectedToken"
                    /\ out.e.msg = "SemiColon"

\* Stmt::parse has returned the assignment `let mut x = ... ;`
C18_Witness ==
    /\ entry = "Stmt"
    /\ out.k = "ok"
    /\ out.v.kind.tag = "Assign"
    /\ out.v.kind.mutable
    /\ tokens[2].kind = Keyword(<<"m", "u", "t">>)

(***************************************************************************)
(* Claims about every parser (checked under SpecAll).                      *)
(***************************************************************************)
\* the whole stream is consumed and a `{` or `(` is still open at its end
OpenAtEnd == out.pos = Len(tokens) /\ Nesting(Len(tokens) + 1) >= 1

\* the stream is a for loop that ends inside its body
EndsInForBody ==
    /\ entry = "Stmt"
    /\ ForHead
    /\ Len(tokens) >= 7
    /\ tokens[7].kind = Punct("LeftCurlyBracket")
    /\ OpenAtEnd

\* the stream is a function that ends inside its body
EndsInFnBody ==
    /\ entry = "Function"
    /\ FnSig_parse(CursorAt(0)).k = "ok"
    /\ FnSig_parse(CursorAt(0)).st.pos < Len(tokens)
    /\ tokens[FnSig_parse(CursorAt(0)).st.pos + 1].kind = Punct("LeftCurlyBracket")
    /\ OpenAtEnd

\* C19: in every run of every parser, no iteration of a loop (function
\* body, for-loop body, argument list, call arguments, fields of a struct
\* declaration or literal) goes round again without having consumed a
\* token, and a stream that ends inside the body of a function or of a for
\* loop gives a recoverable error.
C19_LoopsProgress ==
    /\ ~out.stalled
    /\ (EndsInForBody \/ EndsInFnBody) => (out.k = "err" /\ out.v = <<>>)

\* Stmt::parse has met the end of input after a statement of a for-loop
\* body
C19_Witness ==
    /\ EndsInForBody
    /\ Len(tokens) >= 9
    /\ tokens[Len(tokens)].kind = Punct("SemiColon")
    /\ out.items = 1
    /\ out.k = "err"
    /\ out.e.kind = "InvalidStatement"

\* C15: the first error raised in a parse is its outcome: a run that ends
\* in an error has raised that one error and no other, has consumed no
\* token and grown no list (fields, arguments, statements) since, and
\* returns no node; a run that ends in a node has raised no error.
C15_FirstErrorStops ==
    /\ out.k = "ok" => (out.errors = <<>> /\ out.e = NoError)
    /\ out.k = "err" =>
          /\ out.errors = <<[e |-> out.e, pos |-> out.pos, items |-> out.items]>>
          /\ out.v = <<>>
    /\ out.k = "panic" => out.errors = <<>>

\* Function::parse has returned the error of the second statement of a
\* body
C15_Witness ==
    /\ entry = "Function"
    /\ out.k = "err"
    /\ ~out.eof
    /\ out.items = 1
    /\ out.e.kind = "ExpectedToken"
    /\ out.e.msg = "SemiColon"

(***************************************************************************)
(* Claims about the casing predicates (checked under SpecNames).           *)
(***************************************************************************)
\* every character of the name is alphanumeric or an underscore
WordChars(n) == \A i \in 1..Len(n) : is_alphanumeric(n[i]) \/ n[i] = "_"

\* C17: is_valid_fn_type(name) holds iff the name starts with an uppercase
\* letter and holds only alphanumeric characters and underscores;
\* is_valid_fn_name(name) holds iff the name starts with a lowercase letter
\* or an underscore and holds only alphanumeric characters and underscores;
\* the empty name satisfies neither and no name satisfies both.
C17_CasingPredicates ==
    /\ casing.op = "is_valid_fn_type" =>
          casing.val = (/\ input_name # <<>>
                        /\ input_name[1] \in UpperChars
                        /\ WordChars(input_name))
    /\ casing.op = "is_valid_fn_name" =>
          casing.val = (/\ input_name # <<>>
                        /\ (input_name[1] \in LowerChars \/ input_name[1] = "_")
                        /\ WordChars(input_name))
    /\ input_name = <<>> => ~casing.val
    /\ ~(is_valid_fn_name(input_name) /\ is_valid_fn_type(input_name))

====
